---------------------------- MODULE Spec2Model ----------------------------
(***************************************************************************)
(* A model of the MiniMax language-model provider for VS Code:             *)
(*   - MiniMaxClient.streamChat       (the streaming request driver),      *)
(*   - MiniMaxProvider.streamResponse (the response reconstructor),        *)
(*   - MiniMaxProvider.convertMessages (the message mapper),               *)
(*   - MiniMaxProvider.parseToolArguments (argument finalization).         *)
(*                                                                         *)
(* Text that the code inspects character by character (reasoning text,     *)
(* message text, the API key) is a sequence of one-character strings.      *)
(* Tool-call argument text is a sequence of JSON lexemes (Lexemes below),  *)
(* each standing for its characters; ids and names, which the code only    *)
(* tests for emptiness and copies, are TLA+ strings ("" is absent/empty).  *)
(***************************************************************************)
EXTENDS Integers, Sequences, FiniteSets, TLC

VARIABLES
    \* ---- one streamChat / streamResponse invocation ----
    apiKey,            \* options.apiKey: [present, text]
    thinkingPartCtor,  \* TRUE iff vscode.LanguageModelThinkingPart is a function
    pc,                \* position of the invocation
    cancelled,         \* token.isCancellationRequested
    listener,          \* the onCancellationRequested registration
    aborted,           \* abortController.signal.aborted
    networkCalls,      \* calls of client.chat.completions.create
    chunksYielded,     \* chunks yielded by the streamChat generator
    inflight,          \* the chunk yielded and not yet consumed (<<>> if none)
    error,             \* the MiniMaxError thrown by streamChat, if any
    reasoningBuffer,   \* streamResponse: let reasoningBuffer
    pendingToolCalls,  \* streamResponse: Map<number, AccumulatedToolCall>, in insertion order
    toolCallsEmitted,  \* streamResponse: let toolCallsEmitted
    events,            \* what progress.report received, in order
    \* ---- history of the invocation (not read by the actions' guards) ----
    processed,         \* the chunks whose choices were processed, in order
    steps,             \* one record per processed choice: what it saw and reported
    cancelInfo,        \* the position and output at the moment of cancellation
    thrown,            \* what the transport threw into streamChat, if anything
    \* ---- the request of the invocation and its outcome for the host ----
    options,           \* the ChatOptions handed to streamChat
    params,            \* the params handed to client.chat.completions.create
    disposeCalls,      \* calls of cancellationDisposable.dispose
    hostError,         \* what provideLanguageModelChatResponse throws, if anything
    \* ---- the tools of the host's request ----
    hostTools,         \* options.tools, the host's own objects
    toolsGiven,        \* options.tools as the host built them (history)
    toolMode,          \* options.toolMode
    \* ---- parseToolArguments applied to an accumulated argument text ----
    argRaw, argPieces, argResult,
    \* ---- convertMessages over a host message list ----
    hostMessages, msgIndex, converted, origin,
    \* ---- provideTokenCount applied to a string or a message ----
    countInput, countResult

streamVars == <<apiKey, thinkingPartCtor, pc, cancelled, listener, aborted,
                networkCalls, chunksYielded, inflight, error, reasoningBuffer,
                pendingToolCalls, toolCallsEmitted, events, processed, steps,
                cancelInfo, thrown, options, params, disposeCalls, hostError>>
argVars == <<argRaw, argPieces, argResult>>
msgVars == <<hostMessages, msgIndex, converted, origin>>
toolVars == <<hostTools, toolsGiven, toolMode>>
countVars == <<countInput, countResult>>
vars == <<streamVars, argVars, msgVars, toolVars, countVars>>

-----------------------------------------------------------------------------
(* Bounds of the model *)

\* chunks one response delivers at most
MaxChunks == 3
\* pieces an accumulated argument text is concatenated from at most
MaxArgPieces == 4
\* host messages in one conversation at most
MaxMessages == 2
\* content parts in one user host message at most
MaxParts == 2
\* characters of a string handed to provideTokenCount
MaxChars == 9

-----------------------------------------------------------------------------
(* Strings *)

WS == " "

IsBlankChar(c) == c = WS

RECURSIVE TrimStart(_)
TrimStart(s) ==
    IF s = <<>> THEN <<>>
    ELSE IF IsBlankChar(Head(s)) THEN TrimStart(Tail(s)) ELSE s

RECURSIVE TrimEnd(_)
TrimEnd(s) ==
    IF s = <<>> THEN <<>>
    ELSE IF IsBlankChar(s[Len(s)]) THEN TrimEnd(SubSeq(s, 1, Len(s) - 1)) ELSE s

\* String.prototype.trim
Trim(s) == TrimEnd(TrimStart(s))

\* String.prototype.startsWith
StartsWith(s, prefix) ==
    /\ Len(prefix) <= Len(s)
    /\ SubSeq(s, 1, Len(prefix)) = prefix

\* String.prototype.slice(from) for 0 <= from
Slice(s, from) == IF from >= Len(s) THEN <<>> ELSE SubSeq(s, from + 1, Len(s))

-----------------------------------------------------------------------------
(* JSON values and JSON.parse over lexemes *)

Lexemes == {"{", "}", "[", "]", ":", ",", "1", "null", "\"a\"", WS, "x"}

JNull == [t |-> "null", v |-> 0]
JNum(n) == [t |-> "num", v |-> n]
JStr(s) == [t |-> "str", v |-> s]
JArr(items) == [t |-> "arr", v |-> items]
JObj(members) == [t |-> "obj", v |-> members]
EmptyObject == JObj(<<>>)
\* an object with the single key k
JObj1(k, val) == JObj(<<[key |-> k, val |-> val]>>)

\* obj[k] = val, keeping the position of an existing key
RECURSIVE SetMember(_, _, _)
SetMember(members, k, val) ==
    IF members = <<>> THEN <<[key |-> k, val |-> val]>>
    ELSE IF Head(members).key = k THEN <<[key |-> k, val |-> val]>> \o Tail(members)
    ELSE <<Head(members)>> \o SetMember(Tail(members), k, val)

ParseFail == [ok |-> FALSE, val |-> JNull, next |-> 0]
ParseOk(val, next) == [ok |-> TRUE, val |-> val, next |-> next]

RECURSIVE SkipWs(_, _)
SkipWs(toks, i) ==
    IF i <= Len(toks) /\ toks[i] = WS THEN SkipWs(toks, i + 1) ELSE i

Tok(toks, i) == IF i <= Len(toks) THEN toks[i] ELSE "<eof>"

RECURSIVE ParseValue(_, _), ParseElements(_, _, _), ParseMembers(_, _, _)
\* a JSON value starting at or after position i (whitespace skipped)
ParseValue(toks, i) ==
    LET j == SkipWs(toks, i)
        tok == Tok(toks, j)
    IN  CASE tok = "1" -> ParseOk(JNum(1), j + 1)
          [] tok = "null" -> ParseOk(JNull, j + 1)
          [] tok = "\"a\"" -> ParseOk(JStr(<<"a">>), j + 1)
          [] tok = "[" ->
                LET k == SkipWs(toks, j + 1)
                IN  IF Tok(toks, k) = "]" THEN ParseOk(JArr(<<>>), k + 1)
                    ELSE ParseElements(toks, k, <<>>)
          [] tok = "{" ->
                LET k == SkipWs(toks, j + 1)
                IN  IF Tok(toks, k) = "}" THEN ParseOk(JObj(<<>>), k + 1)
                    ELSE ParseMembers(toks, k, <<>>)
          [] OTHER -> ParseFail

\* value ("," value)* "]"
ParseElements(toks, i, acc) ==
    LET r == ParseValue(toks, i)
    IN  IF ~r.ok THEN ParseFail
        ELSE LET k == SkipWs(toks, r.next)
                 items == Append(acc, r.val)
             IN  CASE Tok(toks, k) = "]" -> ParseOk(JArr(items), k + 1)
                   [] Tok(toks, k) = "," -> ParseElements(toks, k + 1, items)
                   [] OTHER -> ParseFail

\* string ":" value ("," string ":" value)* "}"
ParseMembers(toks, i, acc) ==
    LET j == SkipWs(toks, i)
        c == SkipWs(toks, j + 1)
    IN  IF Tok(toks, j) # "\"a\"" \/ Tok(toks, c) # ":" THEN ParseFail
        ELSE LET r == ParseValue(toks, c + 1)
             IN  IF ~r.ok THEN ParseFail
                 ELSE LET k == SkipWs(toks, r.next)
                          members == SetMember(acc, "a", r.val)
                      IN  CASE Tok(toks, k) = "}" -> ParseOk(JObj(members), k + 1)
                            [] Tok(toks, k) = "," -> ParseMembers(toks, k + 1, members)
                            [] OTHER -> ParseFail

\* JSON.parse(text): ok = FALSE where JSON.parse throws
JSONparse(toks) ==
    LET r == ParseValue(toks, 1)
    IN  IF r.ok /\ SkipWs(toks, r.next) = Len(toks) + 1 THEN r ELSE ParseFail

\* JavaScript truthiness of a parsed JSON value
Truthy(val) ==
    CASE val.t = "null" -> FALSE
      [] val.t = "num" -> val.v # 0
      [] val.t = "str" -> val.v # <<>>
      [] OTHER -> TRUE

\* typeof val === "object"
TypeofObject(val) == val.t \in {"obj", "arr", "null"}

\* Array.isArray(val)
IsArray(val) == val.t = "arr"

-----------------------------------------------------------------------------
(* MiniMaxProvider.parseToolArguments *)

\* a slip: the catch branch drops the call's arguments instead of wrapping them
parseToolArguments_dropsMalformed(raw) ==
    LET text == Trim(raw)
        r == JSONparse(text)
    IN  IF text = <<>> THEN EmptyObject
        ELSE IF r.ok
             THEN IF Truthy(r.val) /\ TypeofObject(r.val) /\ ~IsArray(r.val)
                  THEN r.val
                  ELSE JObj1("value", r.val)
             ELSE EmptyObject

parseToolArguments(raw) ==
    LET text == Trim(raw)
        r == JSONparse(text)
    IN  IF text = <<>> THEN EmptyObject
        ELSE IF r.ok
             THEN IF Truthy(r.val) /\ TypeofObject(r.val) /\ ~IsArray(r.val)
                  THEN r.val
                  ELSE JObj1("value", r.val)
             ELSE JObj1("rawArguments", JStr(raw))


-----------------------------------------------------------------------------
(* MiniMaxProvider.convertTools, normalizeToolParameters, resolveToolChoice *)

\* key in object
HasKey(members, k) == \E i \in 1..Len(members) : members[i].key = k

\* object[key], for a key the object has
Member(members, k) == members[CHOOSE i \in 1..Len(members) : members[i].key = k].val

ObjectType == JStr(<<"object">>)

\* const fallback = { type: "object", properties: {} }
fallback ==
    JObj(<<[key |-> "type", val |-> ObjectType],
           [key |-> "properties", val |-> EmptyObject]>>)

\* a slip: the schema is the host's object itself, not a copy of it
spreadCopy_alias(object) == [fresh |-> FALSE, members |-> object.v]

\* { ...inputSchema }: a new object with the members of the host's object
spreadCopy(object) == [fresh |-> TRUE, members |-> object.v]

\* normalizeToolParameters: result is the returned object, source the host's
\* inputSchema after the call
normalizeToolParameters(inputSchema) ==
    IF ~Truthy(inputSchema) \/ ~TypeofObject(inputSchema) \/ IsArray(inputSchema)
    THEN [result |-> fallback, source |-> inputSchema]
    ELSE LET schema == spreadCopy(inputSchema)
             withType == IF ~HasKey(schema.members, "type")
                         THEN SetMember(schema.members, "type", ObjectType)
                         ELSE schema.members
             withProperties ==
                 IF Member(withType, "type") = ObjectType
                    /\ ~HasKey(withType, "properties")
                 THEN SetMember(withType, "properties", EmptyObject)
                 ELSE withType
         IN  [result |-> JObj(withProperties),
              source |-> IF schema.fresh THEN inputSchema ELSE JObj(withProperties)]

\* a value the host passes where a string is expected
StringValue(text) == [isString |-> TRUE, text |-> text]
NotAString == [isString |-> FALSE, text |-> <<>>]

\* normalizeToolName; <<>> is undefined
normalizeToolName(name) == IF ~name.isString THEN <<>> ELSE Trim(name.text)

\* normalizeToolDescription; <<>> is undefined
normalizeToolDescription(description) ==
    IF ~description.isString THEN <<>> ELSE Trim(description.text)

\* a vscode.LanguageModelChatTool
HostTool(name, description, inputSchema) ==
    [name |-> name, description |-> description, inputSchema |-> inputSchema]

\* a MiniMaxToolDefinition
ToolDefinition(name, description, parameters) ==
    [type |-> "function", name |-> name, description |-> description,
     parameters |-> parameters]

\* an optional list: options.tools of the host and of the ChatOptions
NoTools == [defined |-> FALSE, list |-> <<>>]
ToolList(list) == [defined |-> TRUE, list |-> list]

\* the loop of convertTools
RECURSIVE convertEach(_)
convertEach(tools) ==
    IF tools = <<>> THEN <<>>
    ELSE LET tool == Head(tools)
             name == normalizeToolName(tool.name)
         IN  (IF name = <<>> THEN <<>>
              ELSE <<ToolDefinition(name, normalizeToolDescription(tool.description),
                                    normalizeToolParameters(tool.inputSchema).result)>>)
             \o convertEach(Tail(tools))

\* convertTools
convertTools(tools) ==
    IF ~tools.defined \/ Len(tools.list) = 0 THEN NoTools
    ELSE LET definitions == convertEach(tools.list)
         IN  IF Len(definitions) > 0 THEN ToolList(definitions) ELSE NoTools

\* the host's tools after convertTools has run over them
toolsAfterConvert(tools) ==
    [tools EXCEPT !.list =
        [k \in 1..Len(tools.list) |->
            IF normalizeToolName(tools.list[k].name) = <<>> THEN tools.list[k]
            ELSE [tools.list[k] EXCEPT
                     !.inputSchema = normalizeToolParameters(@).source]]]

\* resolveToolChoice; "" is undefined
resolveToolChoice(mode, tools) ==
    IF ~tools.defined \/ Len(tools.list) = 0 THEN ""
    ELSE IF mode = "Required" THEN "required" ELSE "auto"

\* the ChatOptions of a streamChat call, as far as the request depends on them;
\* reasoningSplit is "absent", "true" or "false"
ChatOptions(tools, toolChoice, reasoningSplit) ==
    [tools |-> tools, toolChoice |-> toolChoice, reasoningSplit |-> reasoningSplit]

NoOptions == ChatOptions(NoTools, "", "absent")

\* the options streamResponse builds: lines 126-138
providerOptions(tools, mode, ctor) ==
    LET definitions == convertTools(tools)
    IN  ChatOptions(definitions, resolveToolChoice(mode, definitions),
                    IF ctor THEN "true" ELSE "false")

\* the params of the request: tools, tool_choice ("" is absent) and
\* extra_body.reasoning_split
Params(sent, tools, tool_choice, reasoning_split) ==
    [sent |-> sent, tools |-> tools, tool_choice |-> tool_choice,
     reasoning_split |-> reasoning_split]

NoParams == Params(FALSE, NoTools, "", FALSE)

\* streamChat, lines 55-80
buildParams(opts) ==
    Params(TRUE,
           IF opts.tools.defined /\ Len(opts.tools.list) > 0 THEN opts.tools ELSE NoTools,
           opts.toolChoice,
           opts.reasoningSplit # "false")

-----------------------------------------------------------------------------
(* The chunks of a response *)

\* one entry of delta.reasoning_details; hasText = FALSE is an entry whose
\* text field is not a string (or an entry that is no object)
Detail(text) == [hasText |-> TRUE, text |-> text]
NoTextDetail == [hasText |-> FALSE, text |-> <<>>]

\* one entry of delta.tool_calls; isObject = FALSE is a null or primitive entry,
\* index = -1 an index that is missing or no non-negative integer
Fragment(index, id, name, arguments) ==
    [isObject |-> TRUE, index |-> index, id |-> id, name |-> name,
     arguments |-> arguments]
NotAnObject ==
    [isObject |-> FALSE, index |-> -1, id |-> "", name |-> "", arguments |-> <<>>]

\* one choice of a chunk; an absent array is the empty one, an absent
\* content the empty text, an absent finish_reason ""
Choice(reasoning_details, content, tool_calls, finish_reason) ==
    [isObject |-> TRUE, reasoning_details |-> reasoning_details, content |-> content,
     tool_calls |-> tool_calls, finish_reason |-> finish_reason]

\* an entry of chunk.choices that is null
NullChoice ==
    [isObject |-> FALSE, reasoning_details |-> <<>>, content |-> <<>>,
     tool_calls |-> <<>>, finish_reason |-> ""]

\* a delta.content that is no string but truthy (a number, a list of parts)
NonStringContent == <<"(no string)">>

ReasoningChoice(details) == Choice(details, <<>>, <<>>, "")
ToolChoice(frags, finish) == Choice(<<>>, <<>>, frags, finish)

\* the chunks (each a sequence of choices) the transport may deliver
Chunks ==
    { <<ReasoningChoice(<<Detail(<<"L">>)>>)>>,
      <<ReasoningChoice(<<Detail(<<"L", "m">>)>>)>>,
      <<ReasoningChoice(<<Detail(<<>>)>>), Choice(<<>>, NonStringContent, <<>>, "")>>,
      <<ReasoningChoice(<<Detail(<<"L">>), Detail(<<"G">>), NoTextDetail>>),
        Choice(<<>>, <<"h", "i">>, <<>>, "stop")>>,
      <<ToolChoice(<<Fragment(0, "c1", "", <<>>), Fragment(0, "", "run", <<>>),
                     Fragment(0, "", "", <<"{", "\"a\"", ":">>)>>, "")>>,
      <<ToolChoice(<<Fragment(0, "", "", <<"1">>)>>, ""),
        ToolChoice(<<Fragment(0, "", "", <<"}">>)>>, "tool_calls")>>,
      <<ToolChoice(<<Fragment(1, "c2", "go", <<>>), Fragment(2, "c4", "", <<>>),
                     NotAnObject>>, "")>>,
      <<ToolChoice(<<Fragment(0, "c5", "exec", <<"x">>)>>, "")>>,
      <<ToolChoice(<<Fragment(-1, "c3", "next", <<"1">>)>>, "")>>,
      <<ToolChoice(<<>>, "function_call"), ToolChoice(<<>>, "tool_calls")>>,
      <<NullChoice>> }

-----------------------------------------------------------------------------
(* Output events: what progress.report receives *)

TextPart(text) ==
    [type |-> "text", text |-> text, id |-> "", name |-> "", input |-> JNull]
ThinkingPart(text) ==
    [type |-> "thinking", text |-> text, id |-> "", name |-> "", input |-> JNull]
ToolCallPart(id, name, input) ==
    [type |-> "toolCall", text |-> <<>>, id |-> id, name |-> name, input |-> input]

-----------------------------------------------------------------------------
(* MiniMaxProvider.getLatestReasoningUpdate *)

NoReasoning == [found |-> FALSE, text |-> <<>>]

RECURSIVE LatestFrom(_, _)
LatestFrom(details, latest) ==
    IF details = <<>> THEN latest
    ELSE LatestFrom(Tail(details),
                    IF Head(details).hasText
                    THEN [found |-> TRUE, text |-> Head(details).text]
                    ELSE latest)

getLatestReasoningUpdate(choice) == LatestFrom(choice.reasoning_details, NoReasoning)

-----------------------------------------------------------------------------
(* MiniMaxProvider.accumulateToolCalls *)

\* pending.get(index) !== undefined
Has(pending, index) == \E k \in 1..Len(pending) : pending[k].index = index

\* pending.get(index) ?? { index, arguments: "" }
GetOrNew(pending, index) ==
    IF Has(pending, index)
    THEN pending[CHOOSE k \in 1..Len(pending) : pending[k].index = index]
    ELSE [index |-> index, id |-> "", name |-> "", arguments |-> <<>>]

\* pending.set(index, call): a Map keeps the position of an existing key
MapSet(pending, call) ==
    IF Has(pending, call.index)
    THEN [k \in 1..Len(pending) |->
            IF pending[k].index = call.index THEN call ELSE pending[k]]
    ELSE Append(pending, call)

\* the index a fragment is resolved to
resolveIndex(call, pending) ==
    IF call.index >= 0 THEN call.index ELSE Len(pending)

\* a slip: the first id and name win, and the argument text is replaced
applyFragment_firstWinsReplace(current, call) ==
    [current EXCEPT
        !.id = IF call.id # "" /\ current.id = "" THEN call.id ELSE @,
        !.name = IF call.name # "" /\ current.name = "" THEN call.name ELSE @,
        !.arguments = IF call.arguments # <<>> THEN call.arguments ELSE @]

\* the three ratchet assignments of the loop body
applyFragment(current, call) ==
    [current EXCEPT
        !.id = IF call.id # "" THEN call.id ELSE @,
        !.name = IF call.name # "" THEN call.name ELSE @,
        !.arguments = IF call.arguments # <<>> THEN @ \o call.arguments ELSE @]

RECURSIVE accumulateFragments(_, _)
accumulateFragments(frags, pending) ==
    IF frags = <<>> THEN pending
    ELSE LET rawCall == Head(frags)
         IN  IF ~rawCall.isObject
             THEN accumulateFragments(Tail(frags), pending)
             ELSE LET index == resolveIndex(rawCall, pending)
                      current == GetOrNew(pending, index)
                  IN  accumulateFragments(
                          Tail(frags),
                          MapSet(pending, applyFragment(current, rawCall)))

\* a slip: every choice accumulates into a map of its own
accumulateToolCalls_perChoice(choice, pending) ==
    accumulateFragments(choice.tool_calls, <<>>)

accumulateToolCalls(choice, pending) == accumulateFragments(choice.tool_calls, pending)

-----------------------------------------------------------------------------
(* MiniMaxProvider.isToolCallFinish, reportToolCalls *)

\* a slip: any finish reason counts
isToolCallFinish_anyReason(choice) == choice.finish_reason # ""

isToolCallFinish(choice) ==
    choice.finish_reason = "tool_calls" \/ choice.finish_reason = "function_call"

ByIndex(a, b) == a.index < b.index

\* a slip: the calls are reported in the Map's insertion order
orderedCalls_unsorted(pending) == pending

\* [...pending.values()].sort((a, b) => a.index - b.index)
orderedCalls(pending) == SortSeq(pending, ByIndex)

\* the negation of the loop's `continue` test
isComplete(call) == call.id # "" /\ call.name # ""

RECURSIVE reportCalls(_)
reportCalls(calls) ==
    IF calls = <<>> THEN <<>>
    ELSE IF ~isComplete(Head(calls)) THEN reportCalls(Tail(calls))
    ELSE <<ToolCallPart(Head(calls).id, Head(calls).name,
                        parseToolArguments(Head(calls).arguments))>>
         \o reportCalls(Tail(calls))

\* the events reportToolCalls sends to progress
reportToolCalls(pending) == reportCalls(orderedCalls(pending))


-----------------------------------------------------------------------------
(* MiniMaxProvider.streamResponse: the body of the loop over chunk.choices *)

\* latestReasoning.text.startsWith(reasoningBuffer) ? slice : whole text
newReasoning(buffer, text) ==
    IF StartsWith(text, buffer) THEN Slice(text, Len(buffer)) ELSE text

\* a slip: the buffer keeps the emitted delta instead of the full latest text
bufferAfterReport_delta(delta, text) == delta

\* reasoningBuffer = latestReasoning.text, after a report
bufferAfterReport(delta, text) == text

\* a slip: the map is cleared once its calls were reported
pendingAfterReport_cleared(pending) == <<>>

\* reportToolCalls only reads the map: it holds after the report what it held
pendingAfterReport(pending) == pending

\* a slip: the toolCallsEmitted flag is not consulted
finishTriggersReport_noFlag(emitted, choice) == isToolCallFinish(choice)

\* !toolCallsEmitted && this.isToolCallFinish(choice)
finishTriggersReport(emitted, choice) == ~emitted /\ isToolCallFinish(choice)

\* `<think>${text}</think>`
thinkTagged(text) == <<"<think>">> \o text \o <<"</think>">>

\* reportReasoning: the part it reports
reportReasoning(ctor, text) ==
    IF ~ctor THEN TextPart(thinkTagged(text)) ELSE ThinkingPart(text)

\* the state of one streamResponse loop: the three locals and the new reports
LoopState(buffer, pending, emitted, out) ==
    [buffer |-> buffer, pending |-> pending, emitted |-> emitted, out |-> out]

\* one iteration of `for (const choice of chunk.choices)`
processChoice(choice, st, ctor) ==
    LET latest == getLatestReasoningUpdate(choice)
        delta == newReasoning(st.buffer, latest.text)
        reports == ctor /\ latest.found /\ delta # <<>>
        reasoningOut == IF reports THEN <<reportReasoning(ctor, delta)>> ELSE <<>>
        buffer == IF reports THEN bufferAfterReport(delta, latest.text) ELSE st.buffer
        textOut == IF choice.content # <<>> THEN <<TextPart(choice.content)>> ELSE <<>>
        pending == accumulateToolCalls(choice, st.pending)
        finish == finishTriggersReport(st.emitted, choice)
        toolOut == IF finish THEN reportToolCalls(pending) ELSE <<>>
    IN  LoopState(buffer, IF finish THEN pendingAfterReport(pending) ELSE pending,
                  st.emitted \/ finish,
                  st.out \o reasoningOut \o textOut \o toolOut)

\* the choices of a chunk that the loop gets through: reading choice.delta of
\* a null choice raises a TypeError, which ends the loop
RECURSIVE choicesBeforeRaise(_)
choicesBeforeRaise(choices) ==
    IF choices = <<>> \/ ~Head(choices).isObject THEN <<>>
    ELSE <<Head(choices)>> \o choicesBeforeRaise(Tail(choices))

\* the record of one iteration, kept as history
StepRecord(choice, before, after) ==
    [choice |-> choice,
     bufferBefore |-> before.buffer, bufferAfter |-> after.buffer,
     emittedBefore |-> before.emitted, emittedAfter |-> after.emitted,
     pendingAfter |-> after.pending,
     out |-> SubSeq(after.out, Len(before.out) + 1, Len(after.out))]

RECURSIVE processChoices(_, _, _)
processChoices(choices, st, ctor) ==
    IF choices = <<>> THEN st
    ELSE processChoices(Tail(choices), processChoice(Head(choices), st, ctor), ctor)

RECURSIVE stepRecords(_, _, _)
stepRecords(choices, st, ctor) ==
    IF choices = <<>> THEN <<>>
    ELSE LET after == processChoice(Head(choices), st, ctor)
         IN  <<StepRecord(Head(choices), st, after)>>
             \o stepRecords(Tail(choices), after, ctor)

-----------------------------------------------------------------------------
(* MiniMaxClient.toMiniMaxError, MiniMaxProvider.throwMappedError *)

NoError == [name |-> "", code |-> "", statusCode |-> -1, message |-> ""]
\* new MiniMaxError(message, code, statusCode); statusCode -1 is undefined
MiniMaxError(message, code, statusCode) ==
    [name |-> "MiniMaxError", code |-> code, statusCode |-> statusCode,
     message |-> message]

\* the TypeError the runtime raises when streamResponse reads choice.delta of
\* a null choice; it has neither code nor statusCode
TypeError ==
    [name |-> "TypeError", code |-> "", statusCode |-> -1,
     message |-> "Cannot read properties of null"]

\* a value thrown into streamChat; status -1 is undefined, message of a value
\* that is no Error its String() coercion
Failure(kind, status, message) == [kind |-> kind, status |-> status, message |-> message]

NoFailure == Failure("", -1, "")

\* what the transport may throw: an OpenAI.APIError with or without a status,
\* the SDK's APIUserAbortError (the APIError subclass it rejects an aborted
\* request with, status undefined), an Error named AbortError, another Error,
\* a value that is no Error
Failures ==
    { Failure("APIError", 401, "Unauthorized"),
      Failure("APIError", 429, "Too Many Requests"),
      Failure("APIError", -1, "Connection error."),
      Failure("APIUserAbortError", -1, "Request was aborted."),
      Failure("AbortError", -1, "This operation was aborted"),
      Failure("Error", -1, "socket hang up"),
      Failure("NonError", -1, "oops") }

\* error instanceof OpenAI.APIError
instanceofAPIError(failure) == failure.kind \in {"APIError", "APIUserAbortError"}

\* error instanceof Error
instanceofError(failure) == failure.kind # "NonError"

\* error.name
nameOf(failure) == IF failure.kind = "AbortError" THEN "AbortError" ELSE "Error"

\* the failures that stem from the abort of the request's signal
IsAbortFailure(failure) == failure.kind \in {"APIUserAbortError", "AbortError"}

toMiniMaxError(failure) ==
    IF instanceofAPIError(failure)
    THEN LET statusCode == IF failure.status = -1 THEN 0 ELSE failure.status
         IN  MiniMaxError(failure.message,
                          IF statusCode = 401 THEN "AUTHENTICATION_ERROR" ELSE "API_ERROR",
                          statusCode)
    ELSE IF instanceofError(failure) /\ nameOf(failure) = "AbortError"
    THEN MiniMaxError("Request timeout", "TIMEOUT", -1)
    ELSE IF instanceofError(failure)
    THEN MiniMaxError(failure.message, "NETWORK_ERROR", -1)
    ELSE MiniMaxError(failure.message, "UNKNOWN_ERROR", -1)

NoHostError == [thrown |-> FALSE, kind |-> "", detail |-> "", keyDeleted |-> FALSE]

\* throwMappedError: the Error the host receives, and whether deleteApiKey
\* was awaited before it; what is no MiniMaxError is thrown on as it is
throwMappedError(err) ==
    IF err.name # "MiniMaxError"
    THEN [thrown |-> TRUE, kind |-> err.name, detail |-> err.message, keyDeleted |-> FALSE]
    ELSE IF err.statusCode = 401
    THEN [thrown |-> TRUE, kind |-> "Invalid API key", detail |-> "", keyDeleted |-> TRUE]
    ELSE IF err.statusCode = 429
    THEN [thrown |-> TRUE, kind |-> "Rate limit exceeded", detail |-> "",
          keyDeleted |-> FALSE]
    ELSE [thrown |-> TRUE, kind |-> "MiniMax API error", detail |-> err.message,
          keyDeleted |-> FALSE]

-----------------------------------------------------------------------------
(* One invocation of streamChat, consumed by streamResponse *)

ApiKeys ==
    { [present |-> FALSE, text |-> <<>>],
      [present |-> TRUE, text |-> <<>>],
      [present |-> TRUE, text |-> <<WS, WS>>],
      [present |-> TRUE, text |-> <<WS, "k">>] }

\* a slip: the key is tested before it is trimmed
hasApiKey_untrimmed(key) == key.present /\ key.text # <<>>

\* the negation of `!apiKey`, apiKey = options?.apiKey?.trim()
hasApiKey(key) == key.present /\ Trim(key.text) # <<>>

\* streamChat: if (cancellationToken?.isCancellationRequested) return
driverObservesCancel(isCancellationRequested) == isCancellationRequested

\* a slip: the consumer processes whatever it was handed
consumerObservesCancel_never(isCancellationRequested) == FALSE

\* streamResponse: if (token.isCancellationRequested) return
consumerObservesCancel(isCancellationRequested) == isCancellationRequested

\* a slip: the driver pulls on while the consumer still holds a chunk
driverMayPull_eager(position) == position \in {"streaming", "yielded"}

\* the generator is resumed past its yield only by the consumer's next(),
\* which for await calls when the loop body has run
driverMayPull(position) == position = "streaming"

\* the listener () => abortController.abort() runs iff it is registered
listenerAborts(registration) == registration = "registered"

\* a slip: the listener is left as it is when the generator ends
finallyDispose_skipped(registration, calls) ==
    [listener |-> registration, calls |-> calls]

\* finally { cancellationDisposable?.dispose() }
finallyDispose(registration, calls) ==
    IF registration = "none" THEN [listener |-> "none", calls |-> calls]
    ELSE [listener |-> "disposed", calls |-> calls + 1]

\* a slip: a failed invocation starts over
pcAfterThrow_retry == "idle"

\* throw ends the generator
pcAfterThrow == "failed"

NoCancel == [happened |-> FALSE, pc |-> "", events |-> <<>>, processed |-> 0]

\* the fields of an invocation before its first step
StreamStart ==
    /\ listener = "none"
    /\ aborted = FALSE
    /\ networkCalls = 0
    /\ chunksYielded = 0
    /\ inflight = <<>>
    /\ error = NoError
    /\ reasoningBuffer = <<>>
    /\ pendingToolCalls = <<>>
    /\ toolCallsEmitted = FALSE
    /\ events = <<>>
    /\ processed = <<>>
    /\ steps = <<>>
    /\ thrown = NoFailure
    /\ params = NoParams
    /\ disposeCalls = 0
    /\ hostError = NoHostError

StreamIdle ==
    /\ apiKey = [present |-> FALSE, text |-> <<>>]
    /\ thinkingPartCtor = FALSE
    /\ pc = "off"
    /\ cancelled = FALSE
    /\ cancelInfo = NoCancel
    /\ options = NoOptions
    /\ StreamStart

ArgIdle == argRaw = <<>> /\ argPieces = 0 /\ argResult = [done |-> FALSE, val |-> JNull]

MsgIdle == hostMessages = <<>> /\ msgIndex = 0 /\ converted = <<>> /\ origin = <<>>

ToolIdle == hostTools = NoTools /\ toolsGiven = NoTools /\ toolMode = "Auto"

NoCount == [done |-> FALSE, val |-> 0]

CountIdle ==
    /\ countInput = [isString |-> TRUE, text |-> <<>>, parts |-> <<>>]
    /\ countResult = NoCount

\* streamResponse has built the options of a request without tools and
\* called streamChat; the token may be cancelled already
Init ==
    /\ apiKey \in ApiKeys
    /\ thinkingPartCtor \in BOOLEAN
    /\ pc = "idle"
    /\ cancelled \in BOOLEAN
    /\ cancelInfo = IF cancelled
                    THEN [happened |-> TRUE, pc |-> "idle", events |-> <<>>, processed |-> 0]
                    ELSE NoCancel
    /\ options = providerOptions(NoTools, "Auto", thinkingPartCtor)
    /\ StreamStart
    /\ ArgIdle
    /\ MsgIdle
    /\ ToolIdle
    /\ CountIdle

loopVars == <<reasoningBuffer, pendingToolCalls, toolCallsEmitted, events, processed, steps>>

\* what every step of the invocation leaves alone
fixedVars == <<apiKey, thinkingPartCtor, options, argVars, msgVars, toolVars,
               countVars>>

\* the first next() of the generator: lines 39-84 up to the awaited create();
\* the throw of line 41 reaches the host through throwMappedError
StartStreamChat ==
    /\ pc = "idle"
    /\ IF ~hasApiKey(apiKey)
       THEN /\ pc' = pcAfterThrow
            /\ error' = MiniMaxError("API key is required", "NO_API_KEY", 401)
            /\ hostError' = throwMappedError(error')
            /\ UNCHANGED <<listener, networkCalls, params>>
       ELSE /\ pc' = "creating"
            /\ listener' = "registered"
            /\ params' = buildParams(options)
            /\ networkCalls' = networkCalls + 1
            /\ UNCHANGED <<error, hostError>>
    /\ UNCHANGED <<cancelled, aborted, chunksYielded, inflight, loopVars,
                   cancelInfo, thrown, disposeCalls, fixedVars>>

\* the awaited create() resolves with the stream
CreateResolves ==
    /\ pc = "creating"
    /\ pc' = "streaming"
    /\ UNCHANGED <<cancelled, listener, aborted, networkCalls, chunksYielded,
                   inflight, error, loopVars, cancelInfo, thrown, params,
                   disposeCalls, hostError, fixedVars>>

\* create() rejects or the stream's iterator throws: catch, then finally;
\* the MiniMaxError reaches the host through throwMappedError. A failure that
\* stems from the abort of the signal needs the signal to be aborted.
TransportFails ==
    /\ pc \in {"creating", "streaming"}
    /\ \E failure \in Failures :
          /\ IsAbortFailure(failure) => aborted
          /\ thrown' = failure
          /\ error' = toMiniMaxError(failure)
    /\ hostError' = throwMappedError(error')
    /\ pc' = pcAfterThrow
    /\ LET after == finallyDispose(listener, disposeCalls)
       IN  listener' = after.listener /\ disposeCalls' = after.calls
    /\ UNCHANGED <<cancelled, aborted, networkCalls, chunksYielded, inflight,
                   loopVars, cancelInfo, params, fixedVars>>

\* the transport hands the driver its next chunk: lines 86-91
DriverReceivesChunk ==
    /\ driverMayPull(pc)
    /\ chunksYielded < MaxChunks
    /\ \E chunk \in Chunks :
          IF driverObservesCancel(cancelled)
          THEN LET after == finallyDispose(listener, disposeCalls)
               IN  /\ pc' = "done"
                   /\ listener' = after.listener
                   /\ disposeCalls' = after.calls
                   /\ UNCHANGED <<inflight, chunksYielded>>
          ELSE /\ pc' = "yielded"
               /\ inflight' = chunk
               /\ chunksYielded' = chunksYielded + 1
               /\ UNCHANGED <<listener, disposeCalls>>
    /\ UNCHANGED <<cancelled, aborted, networkCalls, error, loopVars, cancelInfo,
                   thrown, params, hostError, fixedVars>>

\* the consumer's loop body for the yielded chunk: lines 142-173; its early
\* return closes the generator, whose finally disposes the listener, and so
\* does a TypeError raised in the body, which the provider's catch hands to
\* throwMappedError
ConsumerProcessesChunk ==
    /\ pc = "yielded"
    /\ IF consumerObservesCancel(cancelled)
       THEN LET after == finallyDispose(listener, disposeCalls)
            IN  /\ pc' = "done"
                /\ listener' = after.listener
                /\ disposeCalls' = after.calls
                /\ inflight' = <<>>
                /\ UNCHANGED <<loopVars, hostError>>
       ELSE LET st == LoopState(reasoningBuffer, pendingToolCalls, toolCallsEmitted, <<>>)
                reached == choicesBeforeRaise(inflight)
                after == processChoices(reached, st, thinkingPartCtor)
            IN  /\ reasoningBuffer' = after.buffer
                /\ pendingToolCalls' = after.pending
                /\ toolCallsEmitted' = after.emitted
                /\ events' = events \o after.out
                /\ steps' = steps \o stepRecords(reached, st, thinkingPartCtor)
                /\ inflight' = <<>>
                /\ IF reached = inflight
                   THEN /\ processed' = Append(processed, inflight)
                        /\ pc' = "streaming"
                        /\ UNCHANGED <<listener, disposeCalls, hostError>>
                   ELSE LET closed == finallyDispose(listener, disposeCalls)
                        IN  /\ processed' = processed
                            /\ pc' = "raised"
                            /\ listener' = closed.listener
                            /\ disposeCalls' = closed.calls
                            /\ hostError' = throwMappedError(TypeError)
    /\ UNCHANGED <<cancelled, aborted, networkCalls, chunksYielded, error,
                   cancelInfo, thrown, params, fixedVars>>

\* the stream is exhausted: both loops end, finally disposes the listener
StreamEnds ==
    /\ pc = "streaming"
    /\ pc' = "done"
    /\ LET after == finallyDispose(listener, disposeCalls)
       IN  listener' = after.listener /\ disposeCalls' = after.calls
    /\ UNCHANGED <<cancelled, aborted, networkCalls, chunksYielded, inflight,
                   error, loopVars, cancelInfo, thrown, params, hostError, fixedVars>>

\* the host cancels the token; a registered listener runs at once
Cancel ==
    /\ ~cancelled
    /\ pc # "off"
    /\ cancelled' = TRUE
    /\ aborted' = (aborted \/ listenerAborts(listener))
    /\ cancelInfo' = [happened |-> TRUE, pc |-> pc, events |-> events,
                      processed |-> Len(processed)]
    /\ UNCHANGED <<pc, listener, networkCalls, chunksYielded, inflight, error,
                   loopVars, thrown, params, disposeCalls, hostError, fixedVars>>

\* a listener registered on a token that was already cancelled is called
\* later, from a timer, unless it was disposed first
LateListenerRuns ==
    /\ cancelled /\ cancelInfo.pc = "idle"
    /\ ~aborted
    /\ listenerAborts(listener)
    /\ aborted' = TRUE
    /\ UNCHANGED <<pc, cancelled, listener, networkCalls, chunksYielded, inflight,
                   error, loopVars, cancelInfo, thrown, params, disposeCalls,
                   hostError, fixedVars>>

Next ==
    \/ StartStreamChat
    \/ CreateResolves
    \/ TransportFails
    \/ DriverReceivesChunk
    \/ ConsumerProcessesChunk
    \/ StreamEnds
    \/ Cancel
    \/ LateListenerRuns

Spec == Init /\ [][Next]_vars

-----------------------------------------------------------------------------
(* The request of an invocation: the provider's preparation of the options, *)
(* or options a caller of streamChat supplies itself, up to the request's   *)
(* outcome for a response without chunks                                    *)

\* input schemas a host tool may carry (inputSchema: unknown)
HostSchemas ==
    { JNull,
      JStr(<<"s">>),
      JArr(<<>>),
      EmptyObject,
      JObj1("type", JStr(<<"string">>)),
      JObj1("type", ObjectType),
      JObj1("properties", JObj1("q", JObj1("type", JStr(<<"string">>)))),
      JObj(<<[key |-> "properties", val |-> EmptyObject],
             [key |-> "type", val |-> ObjectType]>>) }

HostTools ==
    {HostTool(StringValue(<<WS, "f">>), StringValue(<<"d", WS>>), schema) :
        schema \in HostSchemas}
    \cup {HostTool(StringValue(<<WS>>), NotAString, EmptyObject)}

\* tools a host request carries at most
MaxTools == 2

RECURSIVE HostToolLists(_)
HostToolLists(n) ==
    IF n = 0 THEN {<<>>}
    ELSE LET shorter == HostToolLists(n - 1)
         IN  shorter \cup {Append(ts, t) : ts \in shorter, t \in HostTools}

ToolModes == {"Auto", "Required"}

\* the options a caller of streamChat may pass on its own
DirectOptions ==
    {ChatOptions(tools, toolChoice, reasoningSplit) :
        tools \in {NoTools, ToolList(<<>>),
                   ToolList(<<ToolDefinition(<<"f">>, <<>>, fallback)>>)},
        toolChoice \in {"", "auto", "required"},
        reasoningSplit \in {"absent", "false"}}

InitRequest ==
    /\ apiKey \in ApiKeys
    /\ thinkingPartCtor \in BOOLEAN
    /\ cancelled = FALSE
    /\ cancelInfo = NoCancel
    /\ StreamStart
    /\ ArgIdle
    /\ MsgIdle
    /\ CountIdle
    /\ \/ /\ pc = "preparing"
          /\ hostTools \in {NoTools} \cup {ToolList(ts) : ts \in HostToolLists(MaxTools)}
          /\ toolsGiven = hostTools
          /\ toolMode \in ToolModes
          /\ options = NoOptions
       \/ /\ pc = "idle"
          /\ ToolIdle
          /\ options \in DirectOptions

\* streamResponse, lines 126-140: convertTools, resolveToolChoice and the call
\* of streamChat
ProviderPrepares ==
    /\ pc = "preparing"
    /\ options' = providerOptions(hostTools, toolMode, thinkingPartCtor)
    /\ hostTools' = toolsAfterConvert(hostTools)
    /\ pc' = "idle"
    /\ UNCHANGED <<apiKey, thinkingPartCtor, cancelled, listener, aborted,
                   networkCalls, chunksYielded, inflight, error, loopVars,
                   cancelInfo, thrown, params, disposeCalls, hostError,
                   toolsGiven, toolMode, argVars, msgVars, countVars>>

NextRequest ==
    \/ ProviderPrepares
    \/ StartStreamChat
    \/ CreateResolves
    \/ TransportFails
    \/ StreamEnds

SpecRequest == InitRequest /\ [][NextRequest]_vars

-----------------------------------------------------------------------------
(* parseToolArguments applied to an argument text accumulated from pieces *)

\* the argument fragments a tool call's text is concatenated from
ArgPieces ==
    { <<"{">>, <<"}">>, <<"\"a\"", ":">>, <<"\"a\"">>, <<"1">>, <<"null">>,
      <<"[">>, <<"]">>, <<",">>, <<WS>>, <<"x">> }

InitArgs == StreamIdle /\ ArgIdle /\ MsgIdle /\ ToolIdle /\ CountIdle

\* accumulateToolCalls, line 656: current.arguments += call.function.arguments
AppendArguments ==
    /\ ~argResult.done
    /\ argPieces < MaxArgPieces
    /\ \E piece \in ArgPieces : argRaw' = argRaw \o piece
    /\ argPieces' = argPieces + 1
    /\ UNCHANGED <<argResult, streamVars, msgVars, toolVars, countVars>>

\* reportToolCalls, line 681: this.parseToolArguments(call.arguments)
FinalizeArguments ==
    /\ ~argResult.done
    /\ argResult' = [done |-> TRUE, val |-> parseToolArguments(argRaw)]
    /\ UNCHANGED <<argRaw, argPieces, streamVars, msgVars, toolVars, countVars>>

NextArgs == AppendArguments \/ FinalizeArguments

SpecArgs == InitArgs /\ [][NextArgs]_vars

-----------------------------------------------------------------------------
(* Host messages and wire messages *)

\* a content part of a host message; kind "thinking" is an object of no known
\* part class whose value is a string, kind "other" any remaining value
Part(kind, value, callId, name, content, id, format, metadata) ==
    [kind |-> kind, value |-> value, callId |-> callId, name |-> name,
     content |-> content, id |-> id, format |-> format, metadata |-> metadata]

LanguageModelTextPart(value) == Part("text", value, "", "", <<>>, <<>>, <<>>, <<>>)
\* content: the values of the result's text sub-parts
LanguageModelToolResultPart(callId, content) ==
    Part("toolResult", <<>>, callId, "", content, <<>>, <<>>, <<>>)
LanguageModelToolCallPart(callId, name) ==
    Part("toolCall", <<>>, callId, name, <<>>, <<>>, <<>>, <<>>)
\* metadata: the members of the metadata object
LanguageModelThinkingPart(value, id, format, metadata) ==
    Part("thinking", value, "", "", <<>>, id, format, metadata)

HostMessage(role, parts) == [role |-> role, parts |-> parts]

WireMessage(role, content, tool_call_id, tool_calls, reasoning_details) ==
    [role |-> role, content |-> content, tool_call_id |-> tool_call_id,
     tool_calls |-> tool_calls, reasoning_details |-> reasoning_details]

\* convertRole
convertRole(role) ==
    CASE role = "Assistant" -> "assistant"
      [] role = "User" -> "user"
      [] OTHER -> "system"

\* concatTextParts
RECURSIVE concatTextParts(_)
concatTextParts(parts) ==
    IF parts = <<>> THEN <<>>
    ELSE (IF Head(parts).kind = "text" THEN Head(parts).value ELSE <<>>)
         \o concatTextParts(Tail(parts))

RECURSIVE ConcatAll(_)
ConcatAll(texts) ==
    IF texts = <<>> THEN <<>> ELSE Head(texts) \o ConcatAll(Tail(texts))

\* concatToolResultContent, for text sub-parts
concatToolResultContent(content) ==
    LET normalized == Trim(ConcatAll(content))
    IN  IF normalized # <<>> THEN normalized ELSE <<"{", "}">>

\* isThinkingPart
isThinkingPart(part) == part.kind = "thinking"

\* readNonEmptyString
readNonEmptyString(value) == Trim(value)

RECURSIVE ObjectAssign(_, _)
ObjectAssign(target, source) ==
    IF source = <<>> THEN target
    ELSE ObjectAssign(SetMember(target, Head(source).key, Head(source).val), Tail(source))

NoDetail == [defined |-> FALSE, members |-> <<>>]

\* toReasoningDetail
toReasoningDetail(part, index) ==
    IF ~isThinkingPart(part) \/ Trim(part.value) = <<>> THEN NoDetail
    ELSE LET base == <<[key |-> "type", val |-> JStr(<<"reasoning.text">>)],
                       [key |-> "index", val |-> JNum(index)],
                       [key |-> "text", val |-> JStr(part.value)]>>
             withId == IF readNonEmptyString(part.id) # <<>>
                       THEN SetMember(base, "id", JStr(readNonEmptyString(part.id)))
                       ELSE base
             withFormat == IF readNonEmptyString(part.format) # <<>>
                           THEN SetMember(withId, "format",
                                          JStr(readNonEmptyString(part.format)))
                           ELSE withId
         IN  [defined |-> TRUE, members |-> ObjectAssign(withFormat, part.metadata)]

RECURSIVE assistantToolCalls(_)
assistantToolCalls(parts) ==
    IF parts = <<>> THEN <<>>
    ELSE (IF Head(parts).kind = "toolCall"
          THEN <<[id |-> Head(parts).callId, name |-> Head(parts).name]>>
          ELSE <<>>) \o assistantToolCalls(Tail(parts))

RECURSIVE assistantReasoningDetails(_, _)
assistantReasoningDetails(parts, acc) ==
    IF parts = <<>> THEN acc
    ELSE LET detail == IF Head(parts).kind = "toolCall" THEN NoDetail
                       ELSE toReasoningDetail(Head(parts), Len(acc))
         IN  assistantReasoningDetails(
                 Tail(parts),
                 IF detail.defined THEN Append(acc, detail.members) ELSE acc)

\* toMiniMaxAssistantMessage
toMiniMaxAssistantMessage(parts) ==
    WireMessage("assistant", concatTextParts(parts), "",
                assistantToolCalls(parts), assistantReasoningDetails(parts, <<>>))

\* a slip: the tool messages come out newest first
toolMessages_reversed(parts) ==
    LET RECURSIVE rev(_)
        rev(ps) ==
            IF ps = <<>> THEN <<>>
            ELSE rev(Tail(ps)) \o
                 (IF Head(ps).kind = "toolResult"
                  THEN <<WireMessage("tool", concatToolResultContent(Head(ps).content),
                                     Head(ps).callId, <<>>, <<>>)>>
                  ELSE <<>>)
    IN  rev(parts)

\* the loop of toMiniMaxUserAndToolMessages that fills toolMessages
RECURSIVE toolMessages(_)
toolMessages(parts) ==
    IF parts = <<>> THEN <<>>
    ELSE (IF Head(parts).kind = "toolResult"
          THEN <<WireMessage("tool", concatToolResultContent(Head(parts).content),
                             Head(parts).callId, <<>>, <<>>)>>
          ELSE <<>>) \o toolMessages(Tail(parts))

\* a slip: the user message is emitted whenever the turn has any text
emitsUserMessage_untrimmed(textContent, tools) ==
    Len(textContent) > 0 \/ Len(tools) = 0

\* textContent.trim().length > 0 || toolMessages.length === 0
emitsUserMessage(textContent, tools) ==
    Len(Trim(textContent)) > 0 \/ Len(tools) = 0

\* a slip: the user wire message is placed after the tool wire messages
toMiniMaxUserAndToolMessages_textLast(parts) ==
    LET textContent == concatTextParts(parts)
        tools == toolMessages(parts)
    IN  tools \o (IF emitsUserMessage(textContent, tools)
                  THEN <<WireMessage("user", textContent, "", <<>>, <<>>)>>
                  ELSE <<>>)

\* toMiniMaxUserAndToolMessages
toMiniMaxUserAndToolMessages(parts) ==
    LET textContent == concatTextParts(parts)
        tools == toolMessages(parts)
    IN  (IF emitsUserMessage(textContent, tools)
         THEN <<WireMessage("user", textContent, "", <<>>, <<>>)>>
         ELSE <<>>) \o tools

\* toMiniMaxMessages
toMiniMaxMessages(message) ==
    LET role == convertRole(message.role)
    IN  CASE role = "assistant" -> <<toMiniMaxAssistantMessage(message.parts)>>
          [] role = "user" -> toMiniMaxUserAndToolMessages(message.parts)
          [] OTHER -> <<WireMessage("system", concatTextParts(message.parts), "",
                                    <<>>, <<>>)>>

-----------------------------------------------------------------------------
(* convertMessages over a host conversation *)

UserParts ==
    { LanguageModelTextPart(<<"h">>),
      LanguageModelTextPart(<<WS>>),
      LanguageModelToolResultPart("c1", <<<<"r">>>>),
      LanguageModelToolResultPart("c2", <<>>) }

RECURSIVE PartLists(_)
PartLists(n) ==
    IF n = 0 THEN {<<>>}
    ELSE LET shorter == PartLists(n - 1)
         IN  shorter \cup {Append(ps, p) : ps \in shorter, p \in UserParts}

HostMessages ==
    {HostMessage("User", ps) : ps \in PartLists(MaxParts)}
    \cup
    { HostMessage("Assistant",
                  <<LanguageModelTextPart(<<"h">>),
                    LanguageModelToolCallPart("c1", "run"),
                    LanguageModelToolResultPart("c1", <<<<"r">>>>)>>),
      HostMessage("Assistant",
                  <<LanguageModelThinkingPart(<<"t">>, <<"i">>, <<>>, <<>>),
                    LanguageModelThinkingPart(<<WS>>, <<>>, <<>>, <<>>),
                    LanguageModelThinkingPart(<<"u">>, <<WS>>, <<"f">>,
                        <<[key |-> "index", val |-> JNum(7)]>>)>>),
      HostMessage("System",
                  <<LanguageModelTextPart(<<"h">>),
                    LanguageModelToolResultPart("c2", <<>>)>>),
      HostMessage("System", <<>>) }

InitMsg == StreamIdle /\ ArgIdle /\ MsgIdle /\ ToolIdle /\ CountIdle

\* one iteration of convertMessages' loop: converted.push(...toMiniMaxMessages(message))
ConvertMessage ==
    /\ msgIndex < MaxMessages
    /\ \E message \in HostMessages :
          LET wire == toMiniMaxMessages(message)
          IN  /\ hostMessages' = Append(hostMessages, message)
              /\ converted' = converted \o wire
              /\ origin' = origin \o [k \in 1..Len(wire) |-> msgIndex + 1]
    /\ msgIndex' = msgIndex + 1
    /\ UNCHANGED <<streamVars, argVars, toolVars, countVars>>

NextMsg == ConvertMessage

SpecMsg == InitMsg /\ [][NextMsg]_vars

-----------------------------------------------------------------------------
(* TokenCounter.estimateTokens, MiniMaxProvider.provideTokenCount *)

\* TokenCounter: private readonly charsPerToken = 4
charsPerToken == 4

\* estimateTokens: 0 for the empty text, else Math.ceil(text.length / charsPerToken)
estimateTokens(text) ==
    IF Len(text) = 0 THEN 0
    ELSE (Len(text) + charsPerToken - 1) \div charsPerToken

\* String(n) of a natural number: its decimal digits
RECURSIVE DecimalString(_)
DecimalString(n) ==
    LET digit(d) == <<"0", "1", "2", "3", "4", "5", "6", "7", "8", "9">>[d + 1]
    IN  IF n < 10 THEN <<digit(n)>>
        ELSE Append(DecimalString(n \div 10), digit(n % 10))

\* the loop of provideTokenCount over text.content: the lengths of the
\* LanguageModelTextParts, summed
RECURSIVE totalChars(_)
totalChars(parts) ==
    IF parts = <<>> THEN 0
    ELSE (IF Head(parts).kind = "text" THEN Len(Head(parts).value) ELSE 0)
         + totalChars(Tail(parts))

\* provideTokenCount: a string is measured itself, a message by String(totalChars)
provideTokenCount(input) ==
    IF input.isString THEN estimateTokens(input.text)
    ELSE estimateTokens(DecimalString(totalChars(input.parts)))

\* a text of n characters
TextOfLength(n) == [k \in 1..n |-> "x"]

\* the parts of a message handed to provideTokenCount
CountParts ==
    {LanguageModelTextPart(TextOfLength(n)) : n \in {0, 1, 3, 4, 5, 8}}
    \cup {LanguageModelToolResultPart("c1", <<<<"r">>>>)}

RECURSIVE CountPartLists(_)
CountPartLists(n) ==
    IF n = 0 THEN {<<>>}
    ELSE LET shorter == CountPartLists(n - 1)
         IN  shorter \cup {Append(ps, p) : ps \in shorter, p \in CountParts}

CountInputs ==
    {[isString |-> TRUE, text |-> TextOfLength(n), parts |-> <<>>] : n \in 0..MaxChars}
    \cup {[isString |-> FALSE, text |-> <<>>, parts |-> ps] :
             ps \in CountPartLists(MaxParts)}

InitCount ==
    /\ StreamIdle /\ ArgIdle /\ MsgIdle /\ ToolIdle
    /\ countInput \in CountInputs
    /\ countResult = NoCount

\* provideTokenCount(model, text, token)
ProvideTokenCount ==
    /\ ~countResult.done
    /\ countResult' = [done |-> TRUE, val |-> provideTokenCount(countInput)]
    /\ UNCHANGED <<countInput, streamVars, argVars, msgVars, toolVars>>

NextCount == ProvideTokenCount

SpecCount == InitCount /\ [][NextCount]_vars


-----------------------------------------------------------------------------
(* Properties of the response reconstructor and the request driver *)

IsToolFinishReason(reason) == reason \in {"tool_calls", "function_call"}

ToolEvents(out) == SelectSeq(out, LAMBDA e : e.type = "toolCall")
ReasoningEvents(out) == SelectSeq(out, LAMBDA e : e.type = "thinking")

\* the positions in steps of the choices that carry a tool-call finish signal
FinishSteps == {i \in 1..Len(steps) : IsToolFinishReason(steps[i].choice.finish_reason)}

HasFinish == FinishSteps # {}

\* the first choice of the response that carries a tool-call finish signal
FirstFinish == CHOOSE i \in FinishSteps : \A j \in FinishSteps : i <= j

\* C1: tool calls are reported at most once per response: no choice after the
\* first one with a tool-call finish signal reports a tool-call invocation,
\* whether it sits in the same chunk or in a later one.
C1_ToolCallsEmittedOnce ==
    HasFinish =>
        \A i \in 1..Len(steps) :
            i # FirstFinish => ToolEvents(steps[i].out) = <<>>

\* a response whose first finish signal reported an invocation and which
\* carried a second finish signal afterwards
C1_Witness ==
    /\ Cardinality(FinishSteps) >= 2
    /\ ToolEvents(steps[FirstFinish].out) # <<>>
    /\ Len(processed) >= 2

\* what the reconstructor reports for a chunk sequence, from its initial state
RECURSIVE Replay(_, _, _)
Replay(chunks, st, ctor) ==
    IF chunks = <<>> THEN st
    ELSE Replay(Tail(chunks), processChoices(Head(chunks), st, ctor), ctor)

DerivedEvents(chunks) ==
    Replay(chunks, LoopState(<<>>, <<>>, FALSE, <<>>), thinkingPartCtor).out

CancelledMidStream ==
    cancelInfo.happened /\ cancelInfo.pc \in {"creating", "streaming", "yielded"}

\* C2: once the token is cancelled in mid-stream, after N chunks were
\* processed, the host has exactly the events of chunks 1..N and never gets
\* more, and the signal given to the transport is aborted.
C2_CancelStopsOutput ==
    CancelledMidStream =>
        /\ Len(processed) = cancelInfo.processed
        /\ events = cancelInfo.events
        /\ events = DerivedEvents(SubSeq(processed, 1, cancelInfo.processed))
        /\ aborted

\* cancelled while a chunk was yielded and not yet consumed, after output
\* had been produced; the run then ended without consuming it
C2_Witness ==
    /\ cancelInfo.happened /\ cancelInfo.pc = "yielded"
    /\ cancelInfo.processed >= 1 /\ cancelInfo.events # <<>>
    /\ chunksYielded > Len(processed)
    /\ pc = "done" /\ aborted

IsBlankKey(key) == ~key.present \/ \A i \in 1..Len(key.text) : key.text[i] = WS

\* C3: with an absent or blank API key streamChat fails with NO_API_KEY,
\* no network call is made and no chunk is yielded.
C3_NoApiKeyNoNetwork ==
    IsBlankKey(apiKey) /\ pc # "idle" =>
        /\ pc = "failed"
        /\ error.code = "NO_API_KEY"
        /\ networkCalls = 0
        /\ chunksYielded = 0

\* streamChat was started with a key of blanks only and has failed
C3_Witness ==
    /\ apiKey.present /\ apiKey.text # <<>> /\ IsBlankKey(apiKey)
    /\ pc = "failed" /\ error.code = "NO_API_KEY"

\* the positions in steps of the choices that supply a latest reasoning text
ReasoningSteps == {i \in 1..Len(steps) : getLatestReasoningUpdate(steps[i].choice).found}

LatestText(i) == getLatestReasoningUpdate(steps[i].choice).text

\* the delta of a latest text against a buffer, as the specification states it
PrefixDiff(buffer, latest) ==
    IF Len(latest) >= Len(buffer)
       /\ \A k \in 1..Len(buffer) : latest[k] = buffer[k]
    THEN [k \in 1..(Len(latest) - Len(buffer)) |-> latest[Len(buffer) + k]]
    ELSE latest

ExpectedReasoning(i) ==
    LET delta == PrefixDiff(steps[i].bufferBefore, LatestText(i))
    IN  IF delta # <<>> THEN <<ThinkingPart(delta)>> ELSE <<>>

\* C4: for every latest reasoning text a choice supplies, a reasoning event
\* is reported iff its prefix-diff against the buffer is non-empty, and the
\* event carries exactly that diff.
C4_ReasoningPrefixDiff ==
    \A i \in ReasoningSteps : ReasoningEvents(steps[i].out) = ExpectedReasoning(i)

\* C4, for a host that has the structured reasoning part
C4_PrefixDiffWithThinkingPart ==
    thinkingPartCtor => C4_ReasoningPrefixDiff

\* C5 as stated: after every step that supplies a latest reasoning text, the
\* buffer equals that text (here for a host with the structured reasoning part).
C5_BufferIsLatestText ==
    thinkingPartCtor =>
        \A i \in ReasoningSteps : steps[i].bufferAfter = LatestText(i)

\* C5, amended: with the structured reasoning part, a step that supplies a
\* non-empty latest text leaves the buffer equal to it; a step that supplies
\* the empty text, and every step without the structured reasoning part,
\* leaves the buffer as it was.
C5_BufferAfterStep ==
    \A i \in ReasoningSteps :
        IF thinkingPartCtor /\ LatestText(i) # <<>>
        THEN steps[i].bufferAfter = LatestText(i)
        ELSE steps[i].bufferAfter = steps[i].bufferBefore

\* with the structured reasoning part: a step extended the buffer, a step
\* replaced it by a proper prefix of it, and a step supplied the empty text
\* while the buffer was not empty
C5_Witness ==
    /\ thinkingPartCtor
    /\ \E i \in ReasoningSteps :
          LatestText(i) = <<>> /\ steps[i].bufferBefore # <<>>
    /\ \E i \in ReasoningSteps :
          /\ Len(LatestText(i)) < Len(steps[i].bufferBefore)
          /\ LatestText(i) # <<>>
          /\ StartsWith(steps[i].bufferBefore, LatestText(i))
          /\ steps[i].bufferAfter = LatestText(i)


\* the fragments of steps 1..n that are objects, in processing order
RECURSIVE FragmentsUpTo(_)
FragmentsUpTo(n) ==
    IF n = 0 THEN <<>>
    ELSE FragmentsUpTo(n - 1)
         \o SelectSeq(steps[n].choice.tool_calls, LAMBDA f : f.isObject)

\* the index each fragment is addressed to: its own if it declares one, else
\* the number of distinct indices addressed before it
RECURSIVE Addressed(_, _)
Addressed(frags, seen) ==
    IF frags = <<>> THEN <<>>
    ELSE LET index == IF Head(frags).index >= 0 THEN Head(frags).index
                      ELSE Cardinality(seen)
         IN  <<[Head(frags) EXCEPT !.index = index]>>
             \o Addressed(Tail(frags), seen \cup {index})

\* the fragments received up to and including the first finish signal
FragmentLog == Addressed(FragmentsUpTo(FirstFinish), {})

FragmentsOf(index) == SelectSeq(FragmentLog, LAMBDA f : f.index = index)

LastId(frags) ==
    LET given == SelectSeq(frags, LAMBDA f : f.id # "")
    IN  IF given = <<>> THEN "" ELSE given[Len(given)].id

LastName(frags) ==
    LET given == SelectSeq(frags, LAMBDA f : f.name # "")
    IN  IF given = <<>> THEN "" ELSE given[Len(given)].name

RECURSIVE AllArguments(_)
AllArguments(frags) ==
    IF frags = <<>> THEN <<>> ELSE Head(frags).arguments \o AllArguments(Tail(frags))

LoggedIndices == {FragmentLog[k].index : k \in 1..Len(FragmentLog)}

\* the indices that were supplied both an id and a name
CompleteIndices ==
    {i \in LoggedIndices :
        LastId(FragmentsOf(i)) # "" /\ LastName(FragmentsOf(i)) # ""}

ExpectedInvocation(index) ==
    ToolCallPart(LastId(FragmentsOf(index)), LastName(FragmentsOf(index)),
                 parseToolArguments(AllArguments(FragmentsOf(index))))

\* the elements of a set of integers in ascending order
RECURSIVE Ascending(_)
Ascending(set) ==
    IF set = {} THEN <<>>
    ELSE LET least == CHOOSE x \in set : \A y \in set : x <= y
         IN  <<least>> \o Ascending(set \ {least})

\* C6: at the first tool-call finish signal, every index that was supplied an
\* id and a name gets exactly one invocation: its id is the last non-empty id,
\* its name the last non-empty name, its arguments the parse of all argument
\* fragments concatenated in arrival order.
C6_ToolCallAccumulation ==
    HasFinish =>
        LET reported == ToolEvents(steps[FirstFinish].out)
            indices == Ascending(CompleteIndices)
        IN  /\ Len(reported) = Len(indices)
            /\ \A k \in 1..Len(indices) : reported[k] = ExpectedInvocation(indices[k])

\* the fragments c1, run, {"a": and 1} for index 0 were reported as the
\* invocation c1/run/{a:1}
C6_Witness ==
    /\ HasFinish
    /\ \E e \in {events[k] : k \in 1..Len(events)} :
          e = ToolCallPart("c1", "run", JObj1("a", JNum(1)))

\* an index that was supplied an id and a name twice was reported with the
\* later ones
C6_WitnessOverwrite ==
    /\ HasFinish
    /\ \E e \in {events[k] : k \in 1..Len(events)} :
          e.type = "toolCall" /\ e.id = "c5" /\ e.name = "exec"
    /\ \E k \in 1..Len(FragmentLog) : FragmentLog[k].id = "c1"

\* the accumulated calls at the first finish signal, as a set
AccumulatedAtFinish ==
    {steps[FirstFinish].pendingAfter[k] : k \in 1..Len(steps[FirstFinish].pendingAfter)}

ReportableAtFinish == {c \in AccumulatedAtFinish : c.id # "" /\ c.name # ""}

CallWithIndex(index) == CHOOSE c \in AccumulatedAtFinish : c.index = index

\* C7: the invocations reported at the first tool-call finish signal are the
\* accumulated calls that have an id and a name, each once, in strictly
\* ascending index order; calls without an id or a name report nothing.
C7_CompleteCallsInIndexOrder ==
    HasFinish =>
        LET reported == ToolEvents(steps[FirstFinish].out)
            indices == Ascending({c.index : c \in ReportableAtFinish})
        IN  /\ Len(reported) = Len(indices)
            /\ \A k \in 1..Len(indices) :
                  /\ reported[k].id = CallWithIndex(indices[k]).id
                  /\ reported[k].name = CallWithIndex(indices[k]).name

\* at the finish signal the Map held two reportable calls inserted against
\* their index order and a call without a name; two invocations were reported
C7_Witness ==
    /\ HasFinish
    /\ Len(ToolEvents(steps[FirstFinish].out)) >= 2
    /\ \E c \in AccumulatedAtFinish : c.id # "" /\ c.name = ""
    /\ LET pending == steps[FirstFinish].pendingAfter
       IN  \E j, k \in 1..Len(pending) :
              /\ j < k /\ pending[j].index > pending[k].index
              /\ pending[j] \in ReportableAtFinish
              /\ pending[k] \in ReportableAtFinish

-----------------------------------------------------------------------------
(* Properties of parseToolArguments *)

IsBlankText(text) == \A i \in 1..Len(text) : text[i] = WS

\* C8: argument finalization is total: blank text gives the empty object, a
\* JSON object itself, any other JSON value {value: parsed}, and text that is
\* no JSON {rawArguments: the original text}.
C8_ArgumentFinalization ==
    argResult.done =>
        LET parsed == JSONparse(Trim(argRaw))
        IN  CASE IsBlankText(argRaw) -> argResult.val = EmptyObject
              [] ~IsBlankText(argRaw) /\ parsed.ok /\ parsed.val.t = "obj" ->
                    argResult.val = parsed.val
              [] ~IsBlankText(argRaw) /\ parsed.ok /\ parsed.val.t # "obj" ->
                    argResult.val = JObj1("value", parsed.val)
              [] OTHER -> argResult.val = JObj1("rawArguments", JStr(argRaw))

\* malformed text with a leading blank was wrapped untrimmed
C8_Witness ==
    /\ argResult.done
    /\ Len(argRaw) >= 2 /\ argRaw[1] = WS
    /\ ~JSONparse(Trim(argRaw)).ok
    /\ argResult.val = JObj1("rawArguments", JStr(argRaw))

\* a JSON value that is no object was wrapped
C8_WitnessValue ==
    /\ argResult.done
    /\ argResult.val = JObj1("value", JNull)

\* a JSON object was passed on as it is
C8_WitnessObject ==
    /\ argResult.done
    /\ argResult.val = JObj1("a", JNum(1))

-----------------------------------------------------------------------------
(* Properties of the message mapper *)

\* the wire messages produced from host message m, in their order in converted
RECURSIVE FromOrigin(_, _, _)
FromOrigin(wire, from, m) ==
    IF wire = <<>> THEN <<>>
    ELSE (IF Head(from) = m THEN <<Head(wire)>> ELSE <<>>)
         \o FromOrigin(Tail(wire), Tail(from), m)

WireOf(m) == FromOrigin(converted, origin, m)

ToolWireOf(m) == SelectSeq(WireOf(m), LAMBDA w : w.role = "tool")
UserWireOf(m) == SelectSeq(WireOf(m), LAMBDA w : w.role = "user")

ToolResultsOf(m) == SelectSeq(hostMessages[m].parts, LAMBDA p : p.kind = "toolResult")

IsUserTurn(m) == hostMessages[m].role = "User"

\* C9: the tool wire messages of a user host message match its tool-result
\* parts one to one and in order, by call id; no other host message yields a
\* tool wire message.
C9_ToolMessagesMatchResults ==
    \A m \in 1..Len(hostMessages) :
        LET tools == ToolWireOf(m)
            results == ToolResultsOf(m)
        IN  IF IsUserTurn(m)
            THEN /\ Len(tools) = Len(results)
                 /\ \A k \in 1..Len(results) : tools[k].tool_call_id = results[k].callId
            ELSE tools = <<>>

\* a user message with two tool results with different call ids, and a
\* message of another role that carries a tool result, were converted
C9_Witness ==
    /\ \E m \in 1..Len(hostMessages) :
          /\ IsUserTurn(m) /\ Len(ToolResultsOf(m)) = 2
          /\ ToolResultsOf(m)[1].callId # ToolResultsOf(m)[2].callId
    /\ \E m \in 1..Len(hostMessages) :
          ~IsUserTurn(m) /\ ToolResultsOf(m) # <<>>

TextOf(m) == concatTextParts(hostMessages[m].parts)

\* C10 as stated: a user turn of tool results only (text empty or blank)
\* yields no user wire message; a user turn of blank text only yields exactly
\* one user wire message, and its content is empty.
C10_BlankTurnEmptyContent ==
    \A m \in 1..Len(hostMessages) :
        IsUserTurn(m) /\ IsBlankText(TextOf(m)) =>
            LET users == UserWireOf(m)
            IN  IF ToolResultsOf(m) # <<>>
                THEN users = <<>>
                ELSE Len(users) = 1 /\ users[1].content = <<>>

\* C10, amended: a user turn of tool results only (text empty or blank)
\* yields no user wire message; a user turn with no tool result and blank
\* text yields exactly one user wire message, whose content is the turn's
\* text unchanged (the blanks themselves, empty only if the text is empty).
C10_BlankTurnKeepsText ==
    \A m \in 1..Len(hostMessages) :
        IsUserTurn(m) /\ IsBlankText(TextOf(m)) =>
            LET users == UserWireOf(m)
            IN  IF ToolResultsOf(m) # <<>>
                THEN users = <<>>
                ELSE Len(users) = 1 /\ users[1].content = TextOf(m)

\* a user turn of blanks and tool results, and a user turn of blanks only,
\* were converted
C10_Witness ==
    /\ \E m \in 1..Len(hostMessages) :
          /\ IsUserTurn(m) /\ TextOf(m) # <<>> /\ IsBlankText(TextOf(m))
          /\ ToolResultsOf(m) # <<>> /\ UserWireOf(m) = <<>>
    /\ \E m \in 1..Len(hostMessages) :
          /\ IsUserTurn(m) /\ TextOf(m) # <<>> /\ IsBlankText(TextOf(m))
          /\ ToolResultsOf(m) = <<>> /\ Len(UserWireOf(m)) = 1

-----------------------------------------------------------------------------
(* Properties of the tool conversion *)

\* the provider has converted the host's tools
Prepared == pc # "preparing" /\ toolsGiven.defined

\* the host tools that get a definition: those with a name that is not blank
NamedTools ==
    SelectSeq(toolsGiven.list, LAMBDA t : t.name.isString /\ ~IsBlankText(t.name.text))

\* C11: every emitted tool definition's parameters is an object with a
\* "type" key and, when the type is "object", a "properties" key; an input
\* schema that is no object (or a list) and the empty object both give
\* {type: "object", properties: {}}; a schema with a type other than "object",
\* such as {type: "string"}, is passed through unchanged; the host's schema
\* objects are as the host built them.
C11_ToolSchemaNormalization ==
    Prepared =>
        /\ Len(options.tools.list) = Len(NamedTools)
        /\ \A k \in 1..Len(NamedTools) :
              LET given == NamedTools[k].inputSchema
                  parameters == options.tools.list[k].parameters
              IN  /\ parameters.t = "obj"
                  /\ HasKey(parameters.v, "type")
                  /\ Member(parameters.v, "type") = ObjectType
                        => HasKey(parameters.v, "properties")
                  /\ given.t # "obj" => parameters = fallback
                  /\ given = EmptyObject => parameters = fallback
                  /\ (given.t = "obj" /\ HasKey(given.v, "type")
                      /\ Member(given.v, "type") # ObjectType) => parameters = given
        /\ hostTools = toolsGiven

\* two tools were converted, one with a list as schema and one with the
\* empty object, which had to be completed
C11_Witness ==
    /\ Prepared
    /\ Len(options.tools.list) = 2
    /\ toolsGiven.list[1].inputSchema = JArr(<<>>)
    /\ toolsGiven.list[2].inputSchema = EmptyObject
    /\ options.tools.list[2].parameters = fallback

\* a schema {type: "string"} was passed through, and a schema without a
\* type got one
C11_WitnessPassThrough ==
    /\ Prepared
    /\ Len(options.tools.list) = 2
    /\ options.tools.list[1].parameters = JObj1("type", JStr(<<"string">>))
    /\ toolsGiven.list[2].inputSchema.t = "obj"
    /\ toolsGiven.list[2].inputSchema # EmptyObject
    /\ ~HasKey(toolsGiven.list[2].inputSchema.v, "type")

-----------------------------------------------------------------------------
(* Properties of the failures and the end of an invocation *)

Failed == pc = "failed"
Ended == pc \in {"done", "failed", "raised"}

\* C12: a failure thrown by the transport leaves streamChat with one code: an
\* abort-flavored failure gives TIMEOUT without status code, another API
\* error with status 401 AUTHENTICATION_ERROR, any other API error API_ERROR
\* with its status code, another Error NETWORK_ERROR, a value that is no Error
\* UNKNOWN_ERROR with its string coercion as message.
C12_FailureClassification ==
    thrown # NoFailure =>
        CASE IsAbortFailure(thrown) ->
                error.code = "TIMEOUT" /\ error.statusCode = -1
          [] thrown.kind = "APIError" /\ thrown.status = 401 ->
                error.code = "AUTHENTICATION_ERROR" /\ error.statusCode = 401
          [] thrown.kind = "APIError" /\ thrown.status # 401 ->
                /\ error.code = "API_ERROR"
                /\ thrown.status # -1 => error.statusCode = thrown.status
          [] thrown.kind = "Error" ->
                error.code = "NETWORK_ERROR" /\ error.statusCode = -1
          [] OTHER ->
                /\ error.code = "UNKNOWN_ERROR" /\ error.statusCode = -1
                /\ error.message = thrown.message

\* C12, for the failures that are no APIError and abort-flavored at once: the
\* classification is as stated
C12_ClassificationOfDisjointFailures ==
    thrown.kind # "APIUserAbortError" => C12_FailureClassification

\* C13: when the token was cancelled, the host is not given a failure that
\* stems from the cancellation's abort of the request.
C13_CancellationIsSilent ==
    cancelInfo.happened => ~(hostError.thrown /\ IsAbortFailure(thrown))

\* C14: with a valid key and a token that was cancelled before streamChat
\* started, no network request is issued and no chunk is yielded.
C14_PreCancelledNoRequest ==
    cancelInfo.happened /\ cancelInfo.pc = "idle" /\ hasApiKey(apiKey) =>
        networkCalls = 0 /\ chunksYielded = 0

\* C14, the part the driver keeps: with a token cancelled before the start no
\* chunk is yielded
C14_PreCancelledNoChunk ==
    cancelInfo.happened /\ cancelInfo.pc = "idle" => chunksYielded = 0

\* C15: the listener is disposed at most once, only after it was registered,
\* and an invocation that registered it and has ended (by completion,
\* observed cancellation, failure, or the consumer's early return) has
\* disposed it exactly once.
C15_ListenerDisposedOnce ==
    /\ disposeCalls <= 1
    /\ disposeCalls = 1 <=> listener = "disposed"
    /\ Ended /\ listener # "none" => listener = "disposed" /\ disposeCalls = 1

\* the consumer returned early, leaving a yielded chunk unprocessed, and the
\* listener was disposed
C15_Witness ==
    /\ pc = "done" /\ chunksYielded > Len(processed)
    /\ listener = "disposed" /\ disposeCalls = 1

\* the transport failed during the iteration and the listener was disposed
C15_WitnessFailure ==
    /\ Failed /\ chunksYielded >= 1 /\ thrown # NoFailure
    /\ listener = "disposed" /\ disposeCalls = 1

\* C16: on a host without the structured reasoning part, every choice whose
\* latest reasoning text has a non-empty delta against the buffer reports the
\* text event <think>delta</think>.
C16_ReasoningDegradedToText ==
    ~thinkingPartCtor =>
        \A i \in ReasoningSteps :
            LET delta == PrefixDiff(steps[i].bufferBefore, LatestText(i))
            IN  delta # <<>> =>
                    \E k \in 1..Len(steps[i].out) :
                        steps[i].out[k] = TextPart(thinkTagged(delta))

\* C17: an invocation issues at most one network request; a failure ends it
\* with the classified error given to the caller, and nothing follows.
C17_NoRetry ==
    /\ networkCalls <= 1
    /\ thrown # NoFailure => Failed
    /\ Failed => error # NoError /\ hostError.thrown

\* the transport failed after a chunk had been processed, and the one
\* request stayed the only one
C17_Witness ==
    /\ Failed /\ thrown = Failure("APIError", 429, "Too Many Requests")
    /\ Len(processed) >= 1 /\ networkCalls = 1

\* C18: the request carries tools iff the options' tools list is non-empty,
\* and carries tool_choice only together with tools.
C18_ToolChoiceOnlyWithTools ==
    params.sent =>
        /\ params.tools.defined <=> (options.tools.defined /\ Len(options.tools.list) > 0)
        /\ params.tool_choice # "" => params.tools.defined

\* C18, for the options the provider builds: tool_choice comes with tools
C18_ProviderOptionsKeepChoiceWithTools ==
    params.sent /\ options = providerOptions(toolsGiven, toolMode, thinkingPartCtor) =>
        (params.tool_choice # "" => params.tools.defined)

-----------------------------------------------------------------------------
(* Properties of the assistant's reasoning details and of index resolution *)

\* C19: in every assistant wire message the i-th reasoning_details entry
\* (0-based) has index i.
C19_ReasoningIndexByOrder ==
    \A m \in 1..Len(converted) :
        converted[m].role = "assistant" =>
            \A i \in 1..Len(converted[m].reasoning_details) :
                Member(converted[m].reasoning_details[i], "index") = JNum(i - 1)

\* C19, for thinking parts whose metadata has no index of its own
C19_IndexByOrderWithoutMetadataIndex ==
    \A m \in 1..Len(hostMessages) :
        (\A k \in 1..Len(hostMessages[m].parts) :
            ~HasKey(hostMessages[m].parts[k].metadata, "index"))
        => \A w \in 1..Len(WireOf(m)) :
              \A i \in 1..Len(WireOf(m)[w].reasoning_details) :
                  Member(WireOf(m)[w].reasoning_details[i], "index") = JNum(i - 1)

\* the pending map before step i
PendingBefore(i) == IF i = 1 THEN <<>> ELSE steps[i - 1].pendingAfter

\* the pending map before fragment j of step i
PendingBeforeFragment(i, j) ==
    accumulateFragments(SubSeq(steps[i].choice.tool_calls, 1, j - 1), PendingBefore(i))

\* C20: a fragment without a valid index starts a new accumulated call: the
\* pending map grows by one and every call it held stays as it was.
C20_IndexlessStartsNewCall ==
    \A i \in 1..Len(steps) :
        \A j \in 1..Len(steps[i].choice.tool_calls) :
            LET fragment == steps[i].choice.tool_calls[j]
                before == PendingBeforeFragment(i, j)
                after == accumulateFragments(<<fragment>>, before)
            IN  fragment.isObject /\ fragment.index < 0 =>
                    /\ Len(after) = Len(before) + 1
                    /\ \A k \in 1..Len(before) : after[k] = before[k]

\* C20, while the indices present are 0..size-1: such a fragment starts a
\* new call
C20_NewCallOnContiguousIndices ==
    \A i \in 1..Len(steps) :
        \A j \in 1..Len(steps[i].choice.tool_calls) :
            LET fragment == steps[i].choice.tool_calls[j]
                before == PendingBeforeFragment(i, j)
                after == accumulateFragments(<<fragment>>, before)
            IN  /\ fragment.isObject /\ fragment.index < 0
                /\ \A k \in 1..Len(before) : before[k].index < Len(before)
                => /\ Len(after) = Len(before) + 1
                   /\ \A k \in 1..Len(before) : after[k] = before[k]

-----------------------------------------------------------------------------
(* Properties of the consumer's loop under malformed data, of the pull      *)
(* order, and of the tool calls after and without a finish signal           *)

\* C21: malformed upstream data never aborts the response: nothing is raised
\* while the chunks are processed, every chunk the transport handed over is
\* processed unless the response was cancelled, and what has an unexpected
\* type is dropped or wrapped, so that every text event carries a string.
C21_MalformedDataTolerated ==
    /\ pc # "raised"
    /\ pc = "done" /\ ~cancelled => Len(processed) = chunksYielded
    /\ \A k \in 1..Len(events) :
          events[k].type = "text" => events[k].text # NonStringContent

\* C22: chunk k+1 is requested from the transport only when every event of
\* chunk k was reported: at most one chunk is held between the driver and
\* the reconstructor, and whenever the driver may ask for a chunk the host has
\* exactly the events of the chunks yielded so far.
C22_OneChunkInFlight ==
    /\ chunksYielded <= Len(processed) + 1
    /\ pc = "yielded" => chunksYielded = Len(processed) + 1 /\ inflight # <<>>
    /\ pc = "streaming" =>
          /\ inflight = <<>>
          /\ chunksYielded = Len(processed)
          /\ events = DerivedEvents(processed)

\* the third chunk is held by the consumer after the events of the first two
\* were reported
C22_Witness ==
    /\ pc = "yielded"
    /\ chunksYielded = 3
    /\ Len(processed) = 2
    /\ events # <<>>

\* C23, as the code has it: once the first tool-call finish signal has been
\* handled the pending map still holds the accumulated calls and goes on
\* accumulating the fragments that arrive later, and no later choice reports
\* an invocation.
C23_CallsKeptNotReemitted ==
    HasFinish =>
        /\ \A i \in FirstFinish..Len(steps) :
              /\ steps[i].pendingAfter = accumulateFragments(FragmentsUpTo(i), <<>>)
              /\ i > FirstFinish => ToolEvents(steps[i].out) = <<>>
        /\ pendingToolCalls = accumulateFragments(FragmentsUpTo(Len(steps)), <<>>)

\* a finish signal reported an invocation, and a fragment for the same call
\* arrived after it
C23_Witness ==
    /\ HasFinish
    /\ ToolEvents(steps[FirstFinish].out) # <<>>
    /\ steps[FirstFinish].pendingAfter # <<>>
    /\ \E i \in (FirstFinish + 1)..Len(steps) :
          /\ steps[i].choice.tool_calls # <<>>
          /\ steps[i].pendingAfter # steps[FirstFinish].pendingAfter

\* C23, as stated: once the first tool-call finish signal has been handled
\* the pending map no longer holds the accumulated calls, and fragments that
\* arrive later never result in an invocation.
C23_CallsDiscardedAfterFinish ==
    HasFinish =>
        /\ steps[FirstFinish].pendingAfter = <<>>
        /\ \A i \in (FirstFinish + 1)..Len(steps) : ToolEvents(steps[i].out) = <<>>

\* C24: an invocation is reported only by a choice whose finish_reason is
\* "tool_calls" or "function_call"; a response without such a choice reports
\* none, however it ends and however complete its accumulated calls are.
C24_InvocationOnlyOnFinishSignal ==
    /\ \A i \in 1..Len(steps) :
          ToolEvents(steps[i].out) # <<>> =>
              IsToolFinishReason(steps[i].choice.finish_reason)
    /\ ~HasFinish => ToolEvents(events) = <<>>

\* the response ended after a choice that finished with "stop", with a
\* complete call accumulated, and no invocation was reported
C24_Witness ==
    /\ pc = "done" /\ ~cancelled
    /\ ~HasFinish
    /\ \E i \in 1..Len(steps) : steps[i].choice.finish_reason = "stop"
    /\ \E k \in 1..Len(pendingToolCalls) : isComplete(pendingToolCalls[k])
    /\ ToolEvents(events) = <<>>

\* the response was cancelled with a complete call accumulated
C24_WitnessCancelled ==
    /\ pc = "done" /\ cancelled
    /\ \E k \in 1..Len(pendingToolCalls) : isComplete(pendingToolCalls[k])
    /\ ToolEvents(events) = <<>>

\* C25: the pending map and the reasoning buffer belong to the response: each
\* choice accumulates into the map and continues from the buffer the choice
\* before it left, whatever chunk that one was in, and the choice with the
\* finish signal reports the map with its own fragments accumulated.
C25_StatePerResponse ==
    /\ \A i \in 1..Len(steps) :
          /\ steps[i].pendingAfter = accumulateFragments(FragmentsUpTo(i), <<>>)
          /\ steps[i].bufferBefore = IF i = 1 THEN <<>> ELSE steps[i - 1].bufferAfter
    /\ HasFinish =>
          ToolEvents(steps[FirstFinish].out)
              = reportToolCalls(accumulateFragments(FragmentsUpTo(FirstFinish), <<>>))

\* the choice with the finish signal carried the last fragment of index 0,
\* the choice before it another one, and the invocation has the arguments
\* of both and of the choices before
C25_Witness ==
    /\ HasFinish
    /\ FirstFinish > 2
    /\ \E f \in {steps[FirstFinish].choice.tool_calls[j] :
                    j \in 1..Len(steps[FirstFinish].choice.tool_calls)} :
          f.isObject /\ f.index = 0 /\ f.arguments = <<"}">>
    /\ \E f \in {steps[FirstFinish - 1].choice.tool_calls[j] :
                    j \in 1..Len(steps[FirstFinish - 1].choice.tool_calls)} :
          f.isObject /\ f.index = 0 /\ f.arguments = <<"1">>
    /\ ToolEvents(steps[FirstFinish].out)
          = <<ToolCallPart("c1", "run", JObj1("a", JNum(1)))>>

-----------------------------------------------------------------------------
(* Properties of the stored API key *)

\* the keys provideLanguageModelChatResponse hands to streamResponse: the
\* ones that pass `if (!apiKey)`
ProviderPassesKey == apiKey.present /\ apiKey.text # <<>>

\* C27: the provider deletes the stored key iff the stream failed with code
\* AUTHENTICATION_ERROR; on every other outcome the stored key is left as it
\* is.
C27_KeyDeletedIffAuthenticationError ==
    ProviderPassesKey =>
        (hostError.keyDeleted <=> error.code = "AUTHENTICATION_ERROR")

\* C27, as the code has it: the stored key is deleted iff streamChat threw a
\* MiniMaxError whose statusCode is 401
C27_KeyDeletedIffStatus401 ==
    ProviderPassesKey =>
        (hostError.keyDeleted <=> error.name = "MiniMaxError" /\ error.statusCode = 401)

-----------------------------------------------------------------------------
(* Properties of the wire message order *)

\* the wire roles a host message of the given role may yield
WireRoles(role) ==
    CASE role = "User" -> {"user", "tool"}
      [] role = "Assistant" -> {"assistant"}
      [] OTHER -> {"system"}

\* C26: the wire list keeps the order of the host messages, every host
\* message yields at least one wire message, and a user host message with
\* non-blank text and tool results yields its user wire message first and
\* its tool wire messages after it, wherever its text parts sat.
C26_WireOrder ==
    /\ Len(origin) = Len(converted)
    /\ \A k \in 1..Len(origin) :
          /\ k > 1 => origin[k - 1] <= origin[k]
          /\ converted[k].role \in WireRoles(hostMessages[origin[k]].role)
    /\ \A m \in 1..Len(hostMessages) :
          LET wire == WireOf(m)
          IN  /\ wire # <<>>
              /\ IsUserTurn(m) /\ ~IsBlankText(TextOf(m)) /\ ToolResultsOf(m) # <<>> =>
                    /\ wire[1].role = "user"
                    /\ wire[1].content = TextOf(m)
                    /\ \A k \in 2..Len(wire) : wire[k].role = "tool"

\* a user message whose tool result comes before its text was converted
\* after another message, and its user wire message precedes its tool one
C26_Witness ==
    /\ Len(hostMessages) = 2
    /\ IsUserTurn(2)
    /\ Len(hostMessages[2].parts) = 2
    /\ hostMessages[2].parts[1].kind = "toolResult"
    /\ hostMessages[2].parts[2] = LanguageModelTextPart(<<"h">>)
    /\ Len(WireOf(2)) = 2
    /\ WireOf(2)[1].role = "user" /\ WireOf(2)[2].role = "tool"

-----------------------------------------------------------------------------
(* Properties of the token count *)

\* ceil(n / 4)
CeilQuarter(n) == (n + 3) \div 4

\* C28: the count is ceil(length / 4), 0 for the empty text: for a string of
\* its length, for a message of the total length T of its text parts.
C28_CountIsCeilOfLength ==
    countResult.done =>
        countResult.val = IF countInput.isString
                          THEN CeilQuarter(Len(countInput.text))
                          ELSE CeilQuarter(totalChars(countInput.parts))

\* C28, for a string: the count is ceil(length / 4), 0 for the empty string
C28_StringCount ==
    countResult.done /\ countInput.isString =>
        countResult.val = CeilQuarter(Len(countInput.text))

\* C28, for a message, as the code has it: the count is that of the decimal
\* form of T, 1 while T has at most four digits
C28_MessageCountOfDigits ==
    countResult.done /\ ~countInput.isString =>
        /\ countResult.val = CeilQuarter(Len(DecimalString(totalChars(countInput.parts))))
        /\ totalChars(countInput.parts) < 10000 => countResult.val = 1

=============================================================================
